---------------------------- MODULE Spec2Model ----------------------------
(***************************************************************************)
(* Finite-field elements (src/primitives/field_element.rs) and elliptic    *)
(* curve points (src/primitives/elliptic_curve/point.rs).                  *)
(*                                                                         *)
(* FieldElement<T> is modelled for T = u8, the type the crate's own tests  *)
(* instantiate and the narrowest type `impl_number!` enables.  Arithmetic  *)
(* on T keeps its width: an operation whose mathematical result does not   *)
(* fit panics in a build with overflow checks ("debug") and wraps modulo   *)
(* 2^8 in a build without them ("release").  A panic ends the run.         *)
(*                                                                         *)
(* Point<T> is modelled for T = i32, the type of the integer literals in   *)
(* the point tests.  Within the coordinate bounds of this model every      *)
(* intermediate value fits i32, so its arithmetic is exact.                *)
(***************************************************************************)
EXTENDS Integers, FiniteSets

\* Largest modulus (and value) the caller of the small-field runs uses.
MaxModulus == 13
\* Largest exponent handed to pow.
MaxExp == 13
\* The modulus of the wide-field runs: the largest prime a u8 holds.
WideModulus == 251
\* u8::MAX, num::Bounded::max_value() of the modelled T.
MAX == 255
\* Point coordinates handed to Point::new lie in -MaxCoord..MaxCoord.
MaxCoord == 3
\* Curve parameters a and b lie in 0..MaxParam.
MaxParam == 7

VARIABLES
    pc,      \* the caller: "idle", "returned" (holds an outcome), "aborted"
    build,   \* "debug" (overflow checks on) or "release" (wrapping)
    moduli,  \* the moduli this run's caller constructs elements with
    acc,     \* the field element the caller holds: {} or {fe}
    op,      \* the call just made: "none", "new", "add", "sub", "mul", "div", "pow"
    lhs,     \* its self (for "new": the two arguments num, prime)
    rhs,     \* its right operand
    exp,     \* its exponent
    out,     \* its outcome: Ok(element), Err(NotInRange), or Panic
    pop,     \* the Point call just made: "none", "new", "add"
    pargs,   \* the arguments x, y, a, b of Point::new
    plhs,    \* the self of a Point addition
    prhs,    \* its right operand
    pout     \* the call's outcome: Ok(point), Err, or Panic

vars ==
    <<pc, build, moduli, acc, op, lhs, rhs, exp, out,
      pop, pargs, plhs, prhs, pout>>

-----------------------------------------------------------------------------
(* The numeric type T = u8 *)

\* Marks the value of an expression whose evaluation panicked (no u8 is
\* negative); every operator below passes it on.
Bad == 0 - 1

\* The value a u8 operation stores for the mathematical result n.
Narrow(n) ==
    IF n \in 0..MAX THEN n
    ELSE IF build = "debug" THEN Bad
    ELSE n % (MAX + 1)

TAdd(a, b) == IF a = Bad \/ b = Bad THEN Bad ELSE Narrow(a + b)

TSub(a, b) == IF a = Bad \/ b = Bad THEN Bad ELSE Narrow(a - b)

TMul(a, b) == IF a = Bad \/ b = Bad THEN Bad ELSE Narrow(a * b)

\* Division and remainder by zero panic in every build.
TDiv(a, b) == IF a = Bad \/ b = Bad \/ b = 0 THEN Bad ELSE a \div b

TRem(a, b) == IF a = Bad \/ b = Bad \/ b = 0 THEN Bad ELSE a % b

\* a >> b, used with b = 1 only.
TShr(a, b) == IF a = Bad \/ b = Bad THEN Bad ELSE a \div (2 ^ b)

\* Euclid::rem_euclid on an unsigned type is the remainder.
rem_euclid(a, b) == TRem(a, b)

\* mod_exp::mod_exp, the crate imported at the top of field_element.rs
\* (the reason Number requires num::Bounded and Shr): it asserts that
\* (modulus - 1)^2 fits T, then squares and multiplies.
RECURSIVE mod_exp_loop(_, _, _, _)
mod_exp_loop(result, base, exponent, modulus) ==
    IF result = Bad \/ base = Bad \/ exponent = Bad THEN Bad
    ELSE IF exponent <= 0 THEN result
    ELSE LET r == IF TRem(exponent, 2) = 1
                  THEN TRem(TMul(result, base), modulus)
                  ELSE result
         IN  mod_exp_loop(r, TRem(TMul(base, base), modulus),
                          TShr(exponent, 1), modulus)

mod_exp(base, exponent, modulus) ==
    LET m1 == TSub(modulus, 1)
        q  == TDiv(MAX, m1)
    IN  IF base = Bad \/ exponent = Bad \/ m1 = Bad \/ q = Bad THEN Bad
        ELSE IF ~(m1 < q) THEN Bad
        ELSE mod_exp_loop(1, TRem(base, modulus), exponent, modulus)

-----------------------------------------------------------------------------
(* FieldElement<T>(T, T) *)

FieldElement(num, prime) == [num |-> num, prime |-> prime]

Ok(fe) == [tag |-> "Ok", num |-> fe.num, prime |-> fe.prime, msg |-> ""]

NotInRange(num, prime) ==
    [tag |-> "Err", num |-> num, prime |-> prime, msg |-> "NotInRange"]

Panic(msg) == [tag |-> "Panic", num |-> 0, prime |-> 0, msg |-> msg]

\* A slip in the range check: > where the code has >=.
has_valid_range_inclusive(fe) == ~(fe.num > fe.prime \/ fe.num < 0)

has_valid_range(fe) == ~(fe.num >= fe.prime \/ fe.num < 0)

FieldElement_new(num, prime) ==
    IF ~has_valid_range(FieldElement(num, prime))
    THEN NotInRange(num, prime)
    ELSE Ok(FieldElement(num, prime))

\* Result::unwrap
unwrap(result) == IF result.tag = "Err" THEN Panic("unwrap") ELSE result

\* What each operator does after it has computed num.
Revalidated(num, prime) ==
    IF num = Bad THEN Panic("arithmetic")
    ELSE unwrap(FieldElement_new(num, prime))

\* The checks every binary operator starts with; "" when they pass.
Precheck(self, other) ==
    IF ~has_valid_range(self) \/ ~has_valid_range(other) THEN "range"
    ELSE IF self.prime # other.prime THEN "fields"
    ELSE ""

pow(self, e) ==
    IF ~has_valid_range(self) THEN Panic("range")
    ELSE IF e = 0 THEN Ok(FieldElement(1, self.prime))
    ELSE LET n   == rem_euclid(e, TSub(self.prime, 1))
             num == mod_exp(self.num, n, self.prime)
         IN  IF num = Bad THEN Panic("arithmetic")
             ELSE Ok(FieldElement(num, self.prime))

add(self, other) ==
    IF Precheck(self, other) # "" THEN Panic(Precheck(self, other))
    ELSE Revalidated(TRem(TAdd(self.num, other.num), self.prime), self.prime)

sub(self, other) ==
    IF Precheck(self, other) # "" THEN Panic(Precheck(self, other))
    ELSE Revalidated(TRem(TSub(self.num, other.num), self.prime), self.prime)

mul(self, other) ==
    IF Precheck(self, other) # "" THEN Panic(Precheck(self, other))
    ELSE Revalidated(TRem(TMul(self.num, other.num), self.prime), self.prime)

div(self, other) ==
    IF Precheck(self, other) # "" THEN Panic(Precheck(self, other))
    ELSE LET inv == mod_exp(other.num, TSub(self.prime, 2), self.prime)
         IN  Revalidated(TRem(TMul(self.num, inv), self.prime), self.prime)

-----------------------------------------------------------------------------
(* Point<T>, T = i32 *)

\* num::pow::Pow<u8>
RECURSIVE Pow(_, _)
Pow(x, n) == IF n = 0 THEN 1 ELSE x * Pow(x, n - 1)

Abs(n) == IF n < 0 THEN 0 - n ELSE n

\* i32 division truncates toward zero.
Quot(n, d) ==
    IF (n < 0) # (d < 0) THEN 0 - (Abs(n) \div Abs(d)) ELSE Abs(n) \div Abs(d)

\* The two variants; Infinite carries no coordinates (x and y are fillers
\* that equality of two Infinite points never tells apart).
AffinePoint(a, b, x, y) == [kind |-> "Point", a |-> a, b |-> b, x |-> x, y |-> y]

Infinite(a, b) == [kind |-> "Infinite", a |-> a, b |-> b, x |-> 0, y |-> 0]

NoPoint == [kind |-> "None", a |-> 0, b |-> 0, x |-> 0, y |-> 0]

POk(p) == [tag |-> "Ok", err |-> "", pt |-> p, x |-> 0, y |-> 0]

NotOnCurve(x, y) ==
    [tag |-> "Err", err |-> "NotOnCurve", pt |-> NoPoint, x |-> x, y |-> y]

InvalidPoint ==
    [tag |-> "Err", err |-> "InvalidPoint", pt |-> NoPoint, x |-> 0, y |-> 0]

PPanic(msg) == [tag |-> "Panic", err |-> msg, pt |-> NoPoint, x |-> 0, y |-> 0]

\* A slip in the curve equation: the constant term b left out.
is_valid_without_b(p) ==
    IF p.kind = "Point"
    THEN ~(Pow(p.y, 2) # Pow(p.x, 3) + p.a * p.x)
    ELSE TRUE

\* is_valid(false); __ensure_valid panics where it is FALSE.
is_valid(p) ==
    IF p.kind = "Point"
    THEN ~(Pow(p.y, 2) # Pow(p.x, 3) + p.a * p.x + p.b)
    ELSE TRUE

\* An Option<T> is {} (None) or {v} (Some(v)).
Some(o) == CHOOSE v \in o : TRUE

Point_new(x, y, a, b) ==
    IF x = {} /\ y = {} THEN POk(Infinite(a, b))
    ELSE IF x # {} /\ y # {}
         THEN IF ~is_valid(AffinePoint(a, b, Some(x), Some(y)))
              THEN NotOnCurve(Some(x), Some(y))
              ELSE POk(AffinePoint(a, b, Some(x), Some(y)))
         ELSE InvalidPoint

\* A slip in add's match: the two identity arms in each other's place.
MatchArm_swapped(self, other) ==
    IF self.kind = "Infinite" /\ other.kind = "Infinite" THEN 1
    ELSE IF self.kind = "Infinite" /\ other.kind = "Point" THEN 3
    ELSE IF self.kind = "Point" /\ other.kind = "Infinite" THEN 2
    ELSE IF self.x = other.x /\ self.y # other.y THEN 4
    ELSE IF self.x = other.x /\ (self.y = 0 \/ other.y = 0) THEN 5
    ELSE IF self.x = other.x /\ self.y = other.y THEN 6
    ELSE IF self.x # other.x THEN 7
    ELSE 8

\* The first arm of add's match that takes (self, rhs); 8 is the `_` arm.
MatchArm(self, other) ==
    IF self.kind = "Infinite" /\ other.kind = "Infinite" THEN 1
    ELSE IF self.kind = "Infinite" /\ other.kind = "Point" THEN 2
    ELSE IF self.kind = "Point" /\ other.kind = "Infinite" THEN 3
    ELSE IF self.x = other.x /\ self.y # other.y THEN 4
    ELSE IF self.x = other.x /\ (self.y = 0 \/ other.y = 0) THEN 5
    ELSE IF self.x = other.x /\ self.y = other.y THEN 6
    ELSE IF self.x # other.x THEN 7
    ELSE 8

\* The arm for x == rhs_x && y == rhs_y.
Doubled(self, other) ==
    IF 2 * self.y = 0 THEN PPanic("attempt to divide by zero")
    ELSE LET s     == Quot(3 * Pow(self.x, 2) + self.a, 2 * self.y)
             new_x == Pow(s, 2) * self.x - other.x
             new_y == s * (self.x - new_x) - self.y
         IN  POk(AffinePoint(self.a, self.b, new_x, new_y))

\* The arm for x != rhs_x.
Chord(self, other) ==
    IF other.x - self.x = 0 THEN PPanic("attempt to divide by zero")
    ELSE LET s     == Quot(other.y - self.y, other.x - self.x)
             new_x == Pow(s, 2) - self.x - other.x
             new_y == s * (self.x - new_x) - self.y
         IN  POk(AffinePoint(self.a, self.b, new_x, new_y))

Point_add(self, other) ==
    IF ~is_valid(self) THEN PPanic("is not on the curve")
    ELSE CASE MatchArm(self, other) = 1 -> POk(Infinite(self.a, self.b))
           [] MatchArm(self, other) = 2 -> POk(other)
           [] MatchArm(self, other) = 3 -> POk(self)
           [] MatchArm(self, other) = 4 -> POk(Infinite(self.a, self.b))
           [] MatchArm(self, other) = 5 -> POk(Infinite(self.a, self.b))
           [] MatchArm(self, other) = 6 -> Doubled(self, other)
           [] MatchArm(self, other) = 7 -> Chord(self, other)
           [] OTHER -> PPanic("Should never reach this point")

-----------------------------------------------------------------------------
(* The caller *)

NoArg == FieldElement(0, 0)

NoCall == [tag |-> "None", num |-> 0, prime |-> 0, msg |-> ""]

NoArgs == [x |-> {}, y |-> {}, a |-> 0, b |-> 0]

NoPointCall == [tag |-> "None", err |-> "", pt |-> NoPoint, x |-> 0, y |-> 0]

\* The elements FieldElement::new hands the caller for this run's moduli.
Fresh ==
    {fe \in UNION {{FieldElement(n, p) : n \in 0..p} : p \in moduli} :
        FieldElement_new(fe.num, fe.prime).tag = "Ok"}

\* The operand pairs of a binary call: the element the caller holds on one
\* side, that element or a freshly constructed one on the other.
Operands ==
    {<<a, b>> : a \in acc, b \in acc \cup Fresh} \cup
    {<<b, a>> : a \in acc, b \in Fresh}

\* A call ends with an outcome; a panic unwinds the caller, and nothing
\* runs after it.
Returned(o) ==
    /\ out' = o
    /\ pc' = IF o.tag = "Panic" THEN "aborted" ELSE "returned"
    /\ UNCHANGED <<build, moduli, acc, pop, pargs, plhs, prhs, pout>>

CallNew ==
    /\ pc = "idle"
    /\ \E num \in UNION {0..p : p \in moduli}, prime \in {0} \cup moduli :
        /\ op' = "new" /\ lhs' = FieldElement(num, prime)
        /\ rhs' = NoArg /\ exp' = 0
        /\ Returned(FieldElement_new(num, prime))

\* What a binary call records of itself.
Binary(name, pr) ==
    /\ op' = name /\ lhs' = pr[1] /\ rhs' = pr[2] /\ exp' = 0

CallAdd ==
    /\ pc = "idle"
    /\ \E pr \in Operands :
        Binary("add", pr) /\ Returned(add(pr[1], pr[2]))

CallSub ==
    /\ pc = "idle"
    /\ \E pr \in Operands :
        Binary("sub", pr) /\ Returned(sub(pr[1], pr[2]))

CallMul ==
    /\ pc = "idle"
    /\ \E pr \in Operands :
        Binary("mul", pr) /\ Returned(mul(pr[1], pr[2]))

CallDiv ==
    /\ pc = "idle"
    /\ \E pr \in Operands :
        Binary("div", pr) /\ Returned(div(pr[1], pr[2]))

CallPow ==
    /\ pc = "idle"
    /\ \E self \in acc, e \in 0..MaxExp :
        /\ op' = "pow" /\ lhs' = self /\ rhs' = NoArg /\ exp' = e
        /\ Returned(pow(self, e))

\* The caller takes the element a call returned and goes on with it.
Continue ==
    /\ pc = "returned" /\ op # "none"
    /\ pc' = "idle"
    /\ acc' = IF out.tag = "Ok" THEN {FieldElement(out.num, out.prime)} ELSE acc
    /\ op' = "none" /\ lhs' = NoArg /\ rhs' = NoArg /\ exp' = 0
    /\ out' = NoCall
    /\ UNCHANGED <<build, moduli, pop, pargs, plhs, prhs, pout>>

InitCommon ==
    /\ pc = "idle"
    /\ build \in {"debug", "release"}
    /\ acc = {}
    /\ op = "none" /\ lhs = NoArg /\ rhs = NoArg /\ exp = 0
    /\ out = NoCall
    /\ pop = "none" /\ pargs = NoArgs
    /\ plhs = NoPoint /\ prhs = NoPoint /\ pout = NoPointCall

Init == InitCommon /\ moduli = 1..MaxModulus

Next ==
    CallNew \/ CallAdd \/ CallSub \/ CallMul \/ CallDiv \/ CallPow \/ Continue

Spec == Init /\ [][Next]_vars

\* The same caller over the one modulus WideModulus.
WideInit == InitCommon /\ moduli = {WideModulus}

WideSpec == WideInit /\ [][Next]_vars

-----------------------------------------------------------------------------
(* The caller of Point *)

Coords == (0 - MaxCoord)..MaxCoord

Params == 0..MaxParam

Options == {{}} \cup {{v} : v \in Coords}

\* The points Point::new hands the caller.
Constructed ==
    {Point_new(x, y, a, b).pt :
        <<x, y, a, b>> \in
            {t \in Options \X Options \X Params \X Params :
                Point_new(t[1], t[2], t[3], t[4]).tag = "Ok"}}

PointReturned(o) ==
    /\ pout' = o
    /\ pc' = IF o.tag = "Panic" THEN "aborted" ELSE "returned"
    /\ UNCHANGED <<build, moduli, acc, op, lhs, rhs, exp, out>>

CallPointNew ==
    /\ pc = "idle"
    /\ \E x \in Options, y \in Options, a \in Params, b \in Params :
        /\ pop' = "new" /\ pargs' = [x |-> x, y |-> y, a |-> a, b |-> b]
        /\ plhs' = NoPoint /\ prhs' = NoPoint
        /\ PointReturned(Point_new(x, y, a, b))

CallPointAdd ==
    /\ pc = "idle"
    /\ \E self \in Constructed, other \in Constructed :
        /\ pop' = "add" /\ pargs' = NoArgs
        /\ plhs' = self /\ prhs' = other
        /\ PointReturned(Point_add(self, other))

PointContinue ==
    /\ pc = "returned" /\ pop # "none"
    /\ pc' = "idle"
    /\ pop' = "none" /\ pargs' = NoArgs
    /\ plhs' = NoPoint /\ prhs' = NoPoint /\ pout' = NoPointCall
    /\ UNCHANGED <<build, moduli, acc, op, lhs, rhs, exp, out>>

PointInit == InitCommon /\ moduli = {}

PointNext == CallPointNew \/ CallPointAdd \/ PointContinue

PointSpec == PointInit /\ [][PointNext]_vars

-----------------------------------------------------------------------------
(* Claims about FieldElement *)

\* a^e mod p over the integers (by repeated multiplication, reducing as it
\* goes), and primality, to state the claims with.
RECURSIVE PowMod(_, _, _)
PowMod(a, e, p) == IF e = 0 THEN 1 % p ELSE (a * PowMod(a, e - 1, p)) % p

IsPrime(p) == p > 1 /\ \A d \in 2..(p - 1) : p % d # 0

\* A binary call on two valid elements of one field.
SameField(name) ==
    /\ op = name
    /\ has_valid_range(lhs) /\ has_valid_range(rhs)
    /\ lhs.prime = rhs.prime

\* C1: every field element any call returns has 0 <= value < modulus.
C1_RangeInvariant ==
    out.tag = "Ok" => (0 <= out.num /\ out.num < out.prime)

\* C2: new(value, modulus) returns Err(NotInRange(value, modulus)) exactly
\* when value >= modulus or value < 0, and otherwise Ok with exactly that
\* value and modulus.
C2_NewExact ==
    op = "new" =>
        IF lhs.num >= lhs.prime \/ lhs.num < 0
        THEN /\ out.tag = "Err" /\ out.msg = "NotInRange"
             /\ out.num = lhs.num /\ out.prime = lhs.prime
        ELSE /\ out.tag = "Ok"
             /\ out.num = lhs.num /\ out.prime = lhs.prime

\* new(13, 7) has failed with NotInRange(13, 7).
C2_Witness ==
    /\ op = "new" /\ lhs = FieldElement(13, 7)
    /\ out.tag = "Err" /\ out.num = 13 /\ out.prime = 7

\* C3: for valid a and b of one modulus p, a + b completes and returns the
\* element of modulus p whose value is (a.value + b.value) mod p.
C3_AddExact ==
    SameField("add") =>
        /\ out.tag = "Ok" /\ out.prime = lhs.prime
        /\ out.num = (lhs.num + rhs.num) % lhs.prime

\* C4: for valid a and b of one modulus p, a.value < b.value included,
\* a - b completes and returns the residue of (a.value - b.value) modulo p.
C4_SubExact ==
    SameField("sub") =>
        /\ out.tag = "Ok" /\ out.prime = lhs.prime
        /\ out.num = (lhs.num - rhs.num) % lhs.prime

\* C5: in a prime field, x / a for a # 0 returns x * a^(p-2) mod p, and
\* multiplying the quotient by a gives x back (so a * (1 / a) is 1).
C5_InverseRoundTrip ==
    (SameField("div") /\ IsPrime(lhs.prime) /\ rhs.num # 0) =>
        /\ out.tag = "Ok" /\ out.prime = lhs.prime
        /\ out.num =
             (lhs.num * PowMod(rhs.num, rhs.prime - 2, rhs.prime)) % lhs.prime
        /\ mul(FieldElement(out.num, out.prime), rhs).tag = "Ok"
        /\ mul(FieldElement(out.num, out.prime), rhs).num = lhs.num
        /\ mul(rhs, FieldElement(out.num, out.prime)).num = lhs.num

\* C6: in a prime field, a.pow(e) returns the element whose value is
\* a.value^e mod p, for every exponent e >= 0.
C6_PowExact ==
    (op = "pow" /\ has_valid_range(lhs) /\ IsPrime(lhs.prime)) =>
        /\ out.tag = "Ok" /\ out.prime = lhs.prime
        /\ out.num = PowMod(lhs.num, exp, lhs.prime)

-----------------------------------------------------------------------------
(* Claims about Point *)

\* y^2 = x^3 + a*x + b over the integers.
OnCurve(a, b, x, y) == y * y = x * x * x + a * x + b

\* A point that is valid on its curve.
ValidOperand(p) ==
    \/ p.kind = "Infinite"
    \/ p.kind = "Point" /\ OnCurve(p.a, p.b, p.x, p.y)

\* An addition of two valid points; same curve or not is left open.
Addition == pop = "add" /\ ValidOperand(plhs) /\ ValidOperand(prhs)

SameCurve == plhs.a = prhs.a /\ plhs.b = prhs.b

\* C7: Point::new is decided by which coordinates are present and by the
\* curve equation: (None, None) gives the point at infinity of (a, b); two
\* coordinates give the affine point exactly when they satisfy the equation
\* and Err(NotOnCurve(x, y)) otherwise; one coordinate gives
\* Err(InvalidPoint).  Every affine point returned is on its curve.
C7_NewDecided ==
    pop = "new" =>
        LET a == pargs.a
            b == pargs.b
        IN  /\ (pargs.x = {} /\ pargs.y = {}) =>
                    /\ pout.tag = "Ok"
                    /\ pout.pt.kind = "Infinite"
                    /\ pout.pt.a = a /\ pout.pt.b = b
            /\ \A x \in pargs.x : \A y \in pargs.y :
                    IF OnCurve(a, b, x, y)
                    THEN /\ pout.tag = "Ok"
                         /\ pout.pt.kind = "Point"
                         /\ pout.pt.a = a /\ pout.pt.b = b
                         /\ pout.pt.x = x /\ pout.pt.y = y
                    ELSE /\ pout.tag = "Err" /\ pout.err = "NotOnCurve"
                         /\ pout.x = x /\ pout.y = y
            /\ ((pargs.x = {}) # (pargs.y = {})) =>
                    pout.tag = "Err" /\ pout.err = "InvalidPoint"
            /\ (pout.tag = "Ok" /\ pout.pt.kind = "Point") =>
                    OnCurve(pout.pt.a, pout.pt.b, pout.pt.x, pout.pt.y)

\* Point::new(Some(-1), Some(-2), 5, 7) has failed with NotOnCurve(-1, -2).
C7_Witness ==
    /\ pop = "new"
    /\ pargs = [x |-> {0 - 1}, y |-> {0 - 2}, a |-> 5, b |-> 7]
    /\ pout.tag = "Err" /\ pout.err = "NotOnCurve"
    /\ pout.x = 0 - 1 /\ pout.y = 0 - 2

\* C8: for a valid point P and the point at infinity O of the same curve,
\* P + O and O + P return P, equal to it in a, b, x and y.
C8_Identity ==
    (Addition /\ SameCurve) =>
        /\ prhs.kind = "Infinite" => (pout.tag = "Ok" /\ pout.pt = plhs)
        /\ plhs.kind = "Infinite" => (pout.tag = "Ok" /\ pout.pt = prhs)

\* (-1, -1) on a = 5, b = 7 plus the point at infinity has returned (-1, -1).
C8_Witness ==
    /\ pop = "add"
    /\ plhs = AffinePoint(5, 7, 0 - 1, 0 - 1)
    /\ prhs = Infinite(5, 7)
    /\ pout.tag = "Ok" /\ pout.pt = plhs

\* C9: doubling a valid affine point P = (x, y), y # 0, returns the affine
\* point (x', y') of the same curve with s = (3*x^2 + a) / (2*y),
\* x' = s^2 - 2*x and y' = s*(x - x') - y.  (Stated where the division is
\* exact, as it is for (-1, -1) on a = 5, b = 7, which must give (18, 77).)
C9_Doubling ==
    (/\ Addition /\ plhs = prhs
     /\ plhs.kind = "Point" /\ plhs.y # 0
     /\ Quot(3 * plhs.x * plhs.x + plhs.a, 2 * plhs.y) * (2 * plhs.y)
          = 3 * plhs.x * plhs.x + plhs.a) =>
        LET s  == Quot(3 * plhs.x * plhs.x + plhs.a, 2 * plhs.y)
            x2 == s * s - 2 * plhs.x
            y2 == s * (plhs.x - x2) - plhs.y
        IN  /\ pout.tag = "Ok"
            /\ pout.pt = AffinePoint(plhs.a, plhs.b, x2, y2)

\* C10: an addition whose operands differ in a or b ends in a panic.
C10_MismatchFatal ==
    (Addition /\ ~SameCurve) => pout.tag = "Panic"

=============================================================================
